---- MODULE Spec2Model ----
(***************************************************************************)
(* dftimewolf: TurbiniaProcessor (lib/processors/turbinia.py).             *)
(*                                                                         *)
(* State machines over one set of variables:                               *)
(*   PollSpec      display_task_progress, the polling loop, fed arbitrary  *)
(*                 snapshots by the remote client's get_task_data;         *)
(*   PollFairSpec  the same loop under weak fairness, polling a service    *)
(*                 whose tasks never disappear or leave a terminal status; *)
(*   Spec          process(), from send_request to the final output check, *)
(*                 against a remote service whose tasks appear, save paths *)
(*                 and finish while the request is outstanding;            *)
(*   RunSpec       __init__, setup() with any arguments and configuration, *)
(*                 then process() with the pipeline's input and threat     *)
(*                 intelligence, against a service that answers the        *)
(*                 request with one finished task;                         *)
(*   WaitSpec      TimesketchExporter._WaitForTimelines                    *)
(*                 (lib/exporters/timesketch.py) under weak fairness,      *)
(*                 against a server whose timelines appear and finish;     *)
(*   SketchSpec    SetUp and Process of TimesketchExporters that share one *)
(*                 state object, as far as the sketch they work on.        *)
(*                                                                         *)
(* Strings whose prefix or suffix the code inspects are sequences of       *)
(* one-character strings, so startswith / endswith are computed.           *)
(***************************************************************************)
EXTENDS Integers, Sequences, FiniteSets, TLC

VARIABLES
  \* ---- display_task_progress
  poll_pc,          \* "start" | "polled" | "sleep" | "returned" | "raised"
  task_results,     \* the snapshot of the current iteration
  total_completed,  \* the local of that name
  cur_completed,    \* len(completed_tasks) of the last evaluated iteration
  prev_completed,   \* the same of the iteration before it, -1 if there is none
  emitted,          \* whether the last evaluated iteration printed the update
  \* ---- process
  pc,               \* "new" | "start" | "waiting" | "waited" | "fetch" |
                    \* "done" | "crashed" (an exception left process())
  remote,           \* the remote service's tasks of the request
  task_data,        \* the snapshot process() works on
  fs,               \* the local paths that exist (os.path.exists)
  output,           \* state.output
  errors,           \* state.errors, what add_error recorded
  reports,          \* the Report containers stored in the state
  gs_paths,         \* the local of that name
  gs_idx,           \* position of the fetch loop in gs_paths
  fetched,          \* the copy_from calls made: [path, result]
  sends,            \* number of send_request calls
  raised_at,        \* the call that raised, "none" if none did
  \* ---- the module's attributes and what the pipeline hands it
  self_client,         \* self.client: "None" | "TurbiniaClient"
  self_disk_name,      \* self.disk_name
  self_project,        \* self.project
  self_turbinia_zone,  \* self.turbinia_zone
  self_output_path,    \* self._output_path
  TURBINIA_PROJECT,    \* turbinia_config.TURBINIA_PROJECT
  state_input,         \* self.state.input: (description, disk) pairs
  threatintel,         \* state.get_containers(containers.ThreatIntelligence)
  request,             \* the local of that name in process()
  setup_project,       \* the project argument setup() was called with
  \* ---- TimesketchExporter._WaitForTimelines
  wait_pc,             \* "process" | "check" | "sleep" | "returned" | "skipped"
  wait_for_timelines,  \* self.wait_for_timelines
  server_timelines,    \* the status of each timeline of the sketch, on the server
  timelines,           \* the local of that name: the timelines listed
  tl_idx,              \* position of all(...) in timelines
  listed_unfinished,   \* whether a listed timeline was not final when listed
  \* ---- TimesketchExporter.SetUp, Process
  cache,               \* the state's cache entry 'timesketch_sketch'
  exporters,           \* each exporter's timesketch_api (set or not), sketch_id
  ticket_sketch_id,    \* what _GetSketchIDFromAttributes returns
  created,             \* the create_sketch calls the server served: [id, by]
  last_process         \* what the last Process() call saw and did

poll_vars == <<poll_pc, task_results, total_completed, cur_completed,
               prev_completed, emitted>>
self_vars == <<self_client, self_disk_name, self_project, self_turbinia_zone,
               self_output_path, TURBINIA_PROJECT, state_input, threatintel,
               request, setup_project>>
proc_vars == <<pc, remote, task_data, fs, output, errors, reports, gs_paths,
               gs_idx, fetched, sends, raised_at, self_vars>>
wait_vars == <<wait_pc, wait_for_timelines, server_timelines, timelines,
               tl_idx, listed_unfinished>>
sketch_vars == <<cache, exporters, ticket_sketch_id, created, last_process>>
ts_vars == <<wait_vars, sketch_vars>>
vars == <<poll_vars, proc_vars, ts_vars>>

----------------------------------------------------------------------------
\* Bounds

MaxPollTasks == 3   \* records in a snapshot given to display_task_progress
MaxTasks == 2       \* tasks of the request in process()
MaxPaths == 3       \* saved paths of the request, over all its tasks
MaxIndicators == 2  \* ThreatIntelligence containers in the state
MaxTimelines == 3   \* timelines of the sketch on the Timesketch server
MaxSketches == 3    \* sketches the server creates

----------------------------------------------------------------------------
\* Strings

Slash == <<"/">>
GsScheme == <<"g", "s", ":", "/", "/">>
PlasoExt == <<".", "p", "l", "a", "s", "o">>
WorkerLog == <<"w", "o", "r", "k", "e", "r", "-", "l", "o", "g", ".", "t", "x", "t">>
LogExt == <<".", "l", "o", "g">>

StartsWith(s, prefix) ==
  /\ Len(s) >= Len(prefix)
  /\ SubSeq(s, 1, Len(prefix)) = prefix

EndsWith(s, suffix) ==
  /\ Len(s) >= Len(suffix)
  /\ SubSeq(s, Len(s) - Len(suffix) + 1, Len(s)) = suffix

\* '{0!s}.log'.format(task.get('id'))
TaskLogName(id) == id \o LogExt

\* The task ids the remote service hands out, in order of creation.
TaskIdOf(n) == <<<<"1">>, <<"2">>, <<"3">>, <<"4">>>>[n]
TaskIds == {<<"1">>, <<"2">>}

\* The paths a task may report.
LocalResult == Slash \o <<"a">> \o PlasoExt          \* /a.plaso
RemoteResult == GsScheme \o <<"b">> \o PlasoExt      \* gs://b.plaso
WorkerLogPath == Slash \o WorkerLog                  \* /worker-log.txt
OtherRemoteResult == GsScheme \o <<"c">> \o PlasoExt \* gs://c.plaso
TaskLogPath == GsScheme \o <<"1">> \o LogExt         \* gs://1.log
Paths == {LocalResult, RemoteResult, OtherRemoteResult, WorkerLogPath,
          TaskLogPath}

\* a path with the object-store scheme and another extension: gs://b.txt
RemoteText == GsScheme \o <<"b", ".", "t", "x", "t">>

\* the project, disk_name and turbinia_zone arguments of setup()
project == <<"p">>
disk_name == <<"d">>
turbinia_zone == <<"z">>
\* a project other than `project`
other_project == <<"q">>
\* the name of the disk a previous collector left in state.input
input_disk_name == <<"e">>
\* self._output_path, the directory tempfile.mkdtemp() made
output_path == <<"/", "t">>

\* Python's None, and a value that is not None; attributes and arguments
\* that may be None hold one of the two
NoneValue == <<>>
Some(v) == <<v>>
Val(o) == o[1]

\* `not x` for a string-valued attribute: None or the empty string
Falsy(o) == o = NoneValue \/ o = Some(<<>>)

Statuses == {"Pending", "Successful", "Failed"}

Task(id, status, paths) ==
  [id |-> id, name |-> "PlasoTask", status |-> status, saved_paths |-> paths]

\* task.get('successful') is not None
IsCompleted(task) == task.status # "Pending"

\* task.get('saved_paths') or []: None is read as the empty list
SavedPaths(task) == task.saved_paths

----------------------------------------------------------------------------
\* display_task_progress

\* A snapshot get_task_data may return to the loop: any sequence of task
\* records, two of which may carry the same id.
PollRecords == {Task(i, s, <<>>) : i \in TaskIds, s \in Statuses}
PollSnapshots == UNION {[1..k -> PollRecords] : k \in 0..MaxPollTasks}

\* tasks = {task['id']: task for task in task_results}: a later record of an
\* id replaces an earlier one
TasksById(results) ==
  [i \in {results[k].id : k \in DOMAIN results} |->
     results[CHOOSE k \in DOMAIN results :
               /\ results[k].id = i
               /\ \A j \in DOMAIN results : results[j].id = i => j <= k]]

\* the set completed_tasks after the for loop over tasks.values()
CompletedTasks(results) ==
  {i \in DOMAIN TasksById(results) : IsCompleted(TasksById(results)[i])}

\* the set pending_tasks after the same loop
PendingTasks(results) ==
  {i \in DOMAIN TasksById(results) : ~IsCompleted(TasksById(results)[i])}

\* if len(completed_tasks) > total_completed or not completed_tasks
ShouldPrint(completed, total) ==
  Cardinality(completed) > total \/ completed = {}

\* if len(completed_tasks) == len(task_results) and completed_tasks
ShouldReturn(completed, results) ==
  Cardinality(completed) = Len(results) /\ completed # {}

\* self.client.get_task_data(...) at the top of the loop body
PollQuery ==
  /\ poll_pc \in {"start", "sleep"}
  /\ \/ \E snap \in PollSnapshots :
          /\ task_results' = snap
          /\ poll_pc' = "polled"
     \/ /\ poll_pc' = "raised"     \* the exception leaves the function
        /\ UNCHANGED task_results
  /\ UNCHANGED <<total_completed, cur_completed, prev_completed, emitted>>
  /\ UNCHANGED <<proc_vars, ts_vars>>

\* the rest of the loop body: partition, print, return or sleep
PollEvaluate ==
  /\ poll_pc = "polled"
  /\ LET completed == CompletedTasks(task_results)
         print == ShouldPrint(completed, total_completed)
     IN /\ total_completed' =
             IF print THEN Cardinality(completed) ELSE total_completed
        /\ emitted' = print
        /\ cur_completed' = Cardinality(completed)
        /\ prev_completed' = cur_completed
        /\ poll_pc' = IF ShouldReturn(completed, task_results)
                      THEN "returned" ELSE "sleep"
  /\ UNCHANGED task_results
  /\ UNCHANGED <<proc_vars, ts_vars>>

PollNext == PollQuery \/ PollEvaluate

\* The remote service as the data model describes it: from one poll to the
\* next no task record disappears and a terminal status does not change.
Extends(old, new) ==
  /\ Len(new) >= Len(old)
  /\ \A k \in DOMAIN old :
       /\ new[k].id = old[k].id
       /\ IsCompleted(old[k]) => new[k].status = old[k].status

\* get_task_data answered by such a service
PollQueryMonotone ==
  /\ PollQuery
  /\ poll_pc' = "polled" => Extends(task_results, task_results')

PollMonotoneNext == PollQueryMonotone \/ PollEvaluate

----------------------------------------------------------------------------
\* The remote service while the request is outstanding. Tasks never
\* disappear, a task finishes once, and a task may save paths at any time.

TotalPaths(tasks) ==
  LET RECURSIVE Sum(_)
      Sum(k) == IF k = 0 THEN 0 ELSE Len(tasks[k].saved_paths) + Sum(k - 1)
  IN Sum(Len(tasks))

RemoteOpen == pc \in {"waiting", "waited"}

RemoteAddTask ==
  /\ RemoteOpen
  /\ Len(remote) < MaxTasks
  /\ remote' = Append(remote, Task(TaskIdOf(Len(remote) + 1), "Pending", <<>>))
  /\ UNCHANGED <<pc, task_data, fs, output, errors, reports, gs_paths, gs_idx,
                 fetched, sends, raised_at, self_vars>>
  /\ UNCHANGED <<poll_vars, ts_vars>>

RemoteSavePath ==
  /\ RemoteOpen
  /\ TotalPaths(remote) < MaxPaths
  /\ \E k \in DOMAIN remote, p \in Paths :
       remote' = [remote EXCEPT ![k].saved_paths = Append(@, p)]
  /\ UNCHANGED <<pc, task_data, fs, output, errors, reports, gs_paths, gs_idx,
                 fetched, sends, raised_at, self_vars>>
  /\ UNCHANGED <<poll_vars, ts_vars>>

RemoteFinishTask ==
  /\ RemoteOpen
  /\ \E k \in DOMAIN remote, s \in {"Successful", "Failed"} :
       /\ remote[k].status = "Pending"
       /\ remote' = [remote EXCEPT ![k].status = s]
  /\ UNCHANGED <<pc, task_data, fs, output, errors, reports, gs_paths, gs_idx,
                 fetched, sends, raised_at, self_vars>>
  /\ UNCHANGED <<poll_vars, ts_vars>>

----------------------------------------------------------------------------
\* process

\* self.state.add_error(..., critical=True)
AddError(errs, msg) == Append(errs, [msg |-> msg, critical |-> TRUE])

\* RequestFailed without the `return`: the error is recorded and process()
\* goes on to the report and the collection
RequestFailedNoReturn(call) ==
  /\ errors' = AddError(errors, "TurbiniaException")
  /\ raised_at' = call
  /\ pc' = "waited"
  /\ UNCHANGED <<task_data, output, reports, gs_paths, gs_idx, fetched>>

\* except TurbiniaException as e: self.state.add_error(e, critical=True); return
\* around send_request, wait_for_request and get_task_data
RequestFailed(call) ==
  /\ errors' = AddError(errors, "TurbiniaException")
  /\ raised_at' = call
  /\ pc' = "done"
  /\ UNCHANGED <<task_data, output, reports, gs_paths, gs_idx, fetched>>

\* ReportShows without the third `continue`: local paths are shown too
ReportShowsLocal(task, path) ==
  /\ ~EndsWith(path, WorkerLog)
  /\ ~EndsWith(path, TaskLogName(task.id))

\* the path filter of the report loop: the three `continue`s
ReportShows(task, path) ==
  /\ ~EndsWith(path, WorkerLog)
  /\ ~EndsWith(path, TaskLogName(task.id))
  /\ ~StartsWith(path, Slash)

\* the lines the report loop adds for one task
TaskReport(task) ==
  LET shown == SelectSeq(SavedPaths(task), LAMBDA p : ReportShows(task, p))
  IN <<[kind |-> "task", name |-> task.name, id |-> task.id,
        status |-> task.status, path |-> <<>>, n |-> 0]>>
     \o [k \in 1..Len(shown) |->
           [kind |-> "path", name |-> "", id |-> <<>>, status |-> "",
            path |-> shown[k], n |-> 0]]

\* message: 'Completed {0:d} Turbinia tasks' and the lines of each task
ReportMessage(tasks) ==
  LET RECURSIVE Lines(_)
      Lines(k) == IF k = 0 THEN <<>> ELSE Lines(k - 1) \o TaskReport(tasks[k])
  IN <<[kind |-> "header", name |-> "", id |-> <<>>, status |-> "",
        path |-> <<>>, n |-> Len(tasks)]>> \o Lines(Len(tasks))

\* containers.Report(module_name='TurbiniaProcessor', text=message)
Report(message) == [module_name |-> "TurbiniaProcessor", text |-> message]

\* store_container that stores nothing
StoreContainerDropped(containers, container) == containers

\* self.state.store_container(report)
StoreContainer(containers, container) == Append(containers, container)

\* path.startswith('/') and path.endswith('.plaso')
IsLocalPlaso(path) == StartsWith(path, Slash) /\ EndsWith(path, PlasoExt)

\* IsGsPlaso without the extension test
IsGsAny(path) == StartsWith(path, GsScheme)

\* path.startswith('gs://') and path.endswith('.plaso')
IsGsPlaso(path) == StartsWith(path, GsScheme) /\ EndsWith(path, PlasoExt)

\* VisitedPaths with the tasks visited last to first
VisitedPathsReversed(tasks) ==
  LET RECURSIVE Upto(_)
      Upto(k) == IF k = 0 THEN <<>>
                 ELSE SavedPaths(tasks[k]) \o Upto(k - 1)
  IN Upto(Len(tasks))

\* `for task in task_data: for path in task.get('saved_paths') or []`: the
\* paths the nested loop visits, in the order it visits them
VisitedPaths(tasks) ==
  LET RECURSIVE Upto(_)
      Upto(k) == IF k = 0 THEN <<>>
                 ELSE Upto(k - 1) \o SavedPaths(tasks[k])
  IN Upto(Len(tasks))

\* LocalPaths that skips the tasks that failed
LocalPathsOfSuccessful(tasks) ==
  LET RECURSIVE Upto(_)
      Upto(k) == IF k = 0 THEN <<>>
                 ELSE Upto(k - 1) \o
                      (IF tasks[k].status = "Failed" THEN <<>>
                       ELSE SelectSeq(SavedPaths(tasks[k]), IsLocalPlaso))
  IN Upto(Len(tasks))

\* local_paths after the loop
LocalPaths(tasks) == SelectSeq(VisitedPaths(tasks), IsLocalPlaso)

\* gs_paths after the loop
GsPaths(tasks) == SelectSeq(VisitedPaths(tasks), IsGsPlaso)

\* a label made of the project alone
timeline_label_of_project == Val(self_project) \o <<"-">>

\* timeline_label = '{0:s}-{1:s}'.format(self.project, self.disk_name)
timeline_label == Val(self_project) \o <<"-">> \o Val(self_disk_name)

\* LocalOutput without the os.path.exists test
LocalOutputUnchecked(local_paths) ==
  [k \in 1..Len(local_paths) |-> <<timeline_label, local_paths[k]>>]

\* self.state.output = [(timeline_label, p) for p in local_paths
\*                      if os.path.exists(p)]
LocalOutput(local_paths) ==
  LET existing == SelectSeq(local_paths, LAMBDA p : p \in fs)
  IN [k \in 1..Len(existing) |-> <<timeline_label, existing[k]>>]

\* what GCSOutputWriter.copy_from returns for a remote path when it returns a
\* path: the object's name under self._output_path
StagedPath(path) ==
  Val(self_output_path) \o Slash \o SubSeq(path, Len(GsScheme) + 1, Len(path))

\* FinalCheck left out
FinalCheckSkipped(errs, out) == errs

\* if not self.state.output: add_error('No .plaso files could be found.')
FinalCheck(errs, out) ==
  IF out = <<>> THEN AddError(errs, "No .plaso files could be found.") ELSE errs

\* 'Specified project {0:s} does not match Turbinia configured project
\* {1:s}. ...'
ProjectMismatchMessage ==
  "Specified project does not match Turbinia configured project"

\* SetupConfigured that goes on to make the directory and the client when
\* the projects differ
SetupConfiguredUnchecked ==
  /\ self_output_path' = Some(output_path)
  /\ IF TURBINIA_PROJECT # Val(self_project')
     THEN errors' = AddError(errors, ProjectMismatchMessage)
     ELSE UNCHANGED errors
  /\ self_client' = "TurbiniaClient"

\* the try block of setup() once LoadConfig() has returned
SetupConfigured ==
  IF TURBINIA_PROJECT # Val(self_project')
  THEN /\ errors' = AddError(errors, ProjectMismatchMessage)
       /\ UNCHANGED <<self_output_path, self_client>>
  ELSE /\ self_output_path' = Some(output_path)
       /\ \/ /\ self_client' = "TurbiniaClient"
             /\ UNCHANGED errors
          \/ \* TurbiniaClient() raises TurbiniaException
             /\ errors' = AddError(errors, "TurbiniaException")
             /\ UNCHANGED self_client

\* setup(disk_name, project, turbinia_zone)
Setup ==
  /\ pc = "new"
  /\ \E disk \in {NoneValue, Some(disk_name)},
        proj \in {NoneValue, Some(project), Some(other_project)},
        zone \in {NoneValue, Some(turbinia_zone)} :
       /\ setup_project' = proj
       /\ IF proj = NoneValue \/ zone = NoneValue
          THEN /\ errors' = AddError(errors,
                   "project or turbinia_zone are not all specified, bailing out")
               /\ UNCHANGED <<self_disk_name, self_project, self_turbinia_zone,
                              self_output_path, self_client>>
          ELSE /\ self_disk_name' = disk
               /\ self_project' = proj
               /\ self_turbinia_zone' = zone
               /\ \/ \* turbinia_config.LoadConfig() raises TurbiniaException
                     /\ errors' = AddError(errors, "TurbiniaException")
                     /\ UNCHANGED <<self_output_path, self_client>>
                  \/ SetupConfigured
  /\ pc' = "start"
  /\ UNCHANGED <<remote, task_data, fs, output, reports, gs_paths, gs_idx,
                 fetched, sends, raised_at, TURBINIA_PROJECT, state_input,
                 threatintel, request>>
  /\ UNCHANGED <<poll_vars, ts_vars>>

\* the answers of the remote service to the request of one run: one
\* finished task and what it saved
RunSnapshots ==
  {<<Task(TaskIdOf(1), "Successful", paths)>> :
     paths \in {<<>>,
                <<LocalResult, RemoteResult>>,
                <<RemoteText>>,
                <<RemoteText, RemoteResult>>,
                <<RemoteResult, OtherRemoteResult>>}}

\* the remote service runs the request
RemoteRunsRequest ==
  /\ pc = "waiting"
  /\ remote = <<>>
  /\ remote' \in RunSnapshots
  /\ UNCHANGED <<pc, task_data, fs, output, errors, reports, gs_paths, gs_idx,
                 fetched, sends, raised_at, self_vars>>
  /\ UNCHANGED <<poll_vars, ts_vars>>

\* an exception other than TurbiniaException leaves process()
Crashed(call) ==
  /\ pc' = "crashed"
  /\ raised_at' = call
  /\ UNCHANGED <<output, errors, gs_paths, gs_idx, fetched>>

\* self.disk_name after `if self.state.input and not self.disk_name:`
DiskNameForRequest ==
  IF state_input # <<>> /\ Falsy(self_disk_name)
  THEN Some(state_input[1][2].name)
  ELSE self_disk_name

\* evidence.GoogleCloudDisk(disk_name=..., project=..., zone=...)
GoogleCloudDisk(disk, proj, zone) ==
  [disk_name |-> disk, project |-> proj, zone |-> zone]

\* a ThreatIntelligence container
ThreatIntelligence(name, indicator, path) ==
  [name |-> name, indicator |-> indicator, path |-> path]

\* indicators = [item.indicator for item in threatintel], last item first
IndicatorsReversed(items) ==
  [k \in 1..Len(items) |-> items[Len(items) + 1 - k].indicator]

\* indicators = [item.indicator for item in threatintel]
Indicators(items) == [k \in 1..Len(items) |-> items[k].indicator]

\* request.recipe as TurbiniaRequest() makes it, as far as process() sets it
EmptyRecipe == [key \in {} |-> <<>>]

\* request = TurbiniaRequest(); request.evidence.append(evidence_);
\* if threatintel: request.recipe['filter_patterns'] = indicators
BuildRequest(disk) ==
  [evidence |-> <<GoogleCloudDisk(disk, self_project, self_turbinia_zone)>>,
   recipe |-> IF threatintel # <<>>
              THEN [filter_patterns |-> Indicators(threatintel)]
              ELSE EmptyRecipe]

\* process() up to self.client.send_request(request)
ProcessSend ==
  /\ pc = "start"
  /\ IF self_output_path = NoneValue
     THEN \* os.path.join(None, 'turbinia.log'): TypeError
          /\ Crashed("os.path.join")
          /\ UNCHANGED <<self_disk_name, request, sends, task_data, reports>>
     ELSE /\ self_disk_name' = DiskNameForRequest
          /\ request' = Some(BuildRequest(DiskNameForRequest))
          /\ IF self_client = "None"
             THEN \* None has no send_request: AttributeError
                  /\ Crashed("self.client")
                  /\ UNCHANGED <<sends, task_data, reports>>
             ELSE /\ sends' = sends + 1
                  /\ \/ /\ pc' = "waiting"
                        /\ UNCHANGED <<task_data, output, errors, reports,
                                       gs_paths, gs_idx, fetched, raised_at>>
                     \/ RequestFailed("send_request")
  /\ UNCHANGED <<remote, fs, self_client, self_project, self_turbinia_zone,
                 self_output_path, TURBINIA_PROJECT, state_input, threatintel,
                 setup_project>>
  /\ UNCHANGED <<poll_vars, ts_vars>>

\* self.client.wait_for_request(**request_dict): the client returns once it
\* sees a non-empty task list with every task completed, or raises
ProcessWait ==
  /\ pc = "waiting"
  /\ \/ /\ remote # <<>>
        /\ \A k \in DOMAIN remote : IsCompleted(remote[k])
        /\ pc' = "waited"
        /\ UNCHANGED <<task_data, output, errors, reports, gs_paths, gs_idx,
                       fetched, raised_at>>
     \/ RequestFailed("wait_for_request")
  /\ UNCHANGED <<remote, fs, sends, self_vars>>
  /\ UNCHANGED <<poll_vars, ts_vars>>

\* task_data = self.client.get_task_data(**request_dict) and everything up to
\* the first copy_from: report, classification, local output
ProcessCollect ==
  /\ pc = "waited"
  /\ \/ RequestFailed("get_task_data")
     \/ LET local_paths == LocalPaths(remote)
            gs == GsPaths(remote)
            out == LocalOutput(local_paths)
        IN /\ task_data' = remote
           /\ reports' = StoreContainer(reports, Report(ReportMessage(remote)))
           /\ IF self_disk_name = NoneValue
              THEN \* '{1:s}'.format(None) at the label: TypeError
                   Crashed("format")
              ELSE /\ gs_paths' = gs
                   /\ gs_idx' = 1
                   /\ IF local_paths = <<>> /\ gs = <<>>
                      THEN /\ errors' = AddError(errors,
                                     "No .plaso files found in Turbinia output.")
                           /\ pc' = "done"
                           /\ UNCHANGED output
                      ELSE /\ output' = out
                           /\ IF gs = <<>>
                              THEN /\ errors' = FinalCheck(errors, out)
                                   /\ pc' = "done"
                              ELSE /\ UNCHANGED errors
                                   /\ pc' = "fetch"
                   /\ UNCHANGED <<fetched, raised_at>>
  /\ UNCHANGED <<remote, fs, sends, self_vars>>
  /\ UNCHANGED <<poll_vars, ts_vars>>

\* FetchFailed without the `return`: the loop goes on to the next path
FetchFailedContinues ==
  /\ errors' = AddError(errors, "TurbiniaException")
  /\ raised_at' = "copy_from"
  /\ pc' = IF gs_idx = Len(gs_paths) THEN "done" ELSE pc
  /\ gs_idx' = gs_idx + 1
  /\ UNCHANGED output

\* FetchFailed that tries the same path again instead of returning
FetchFailedRetries ==
  /\ errors' = AddError(errors, "TurbiniaException")
  /\ raised_at' = "copy_from"
  /\ UNCHANGED <<pc, gs_idx, output>>

\* except TurbiniaException as e around copy_from:
\* self.state.add_error(e, critical=True); return
FetchFailed ==
  /\ errors' = AddError(errors, "TurbiniaException")
  /\ raised_at' = "copy_from"
  /\ pc' = "done"
  /\ UNCHANGED <<output, gs_idx>>

\* one iteration of `for path in gs_paths`, and after the last one the final
\* check of the output
ProcessFetch ==
  /\ pc = "fetch"
  /\ LET path == gs_paths[gs_idx]
         Continue(out) ==
           /\ output' = out
           /\ gs_idx' = gs_idx + 1
           /\ UNCHANGED raised_at
           /\ IF gs_idx = Len(gs_paths)
              THEN errors' = FinalCheck(errors, out) /\ pc' = "done"
              ELSE UNCHANGED <<errors, pc>>
     IN \/ /\ fetched' = Append(fetched, [path |-> path, result |-> "raised"])
           /\ FetchFailed
        \/ /\ fetched' = Append(fetched, [path |-> path, result |-> "none"])
           /\ Continue(output)
        \/ /\ fetched' = Append(fetched, [path |-> path, result |-> "path"])
           /\ Continue(Append(output, <<timeline_label, StagedPath(path)>>))
  /\ UNCHANGED <<remote, task_data, fs, reports, gs_paths, sends, self_vars>>
  /\ UNCHANGED <<poll_vars, ts_vars>>

----------------------------------------------------------------------------
\* TimesketchExporter._WaitForTimelines

\* the statuses the loop takes as final
FinalStatuses == {"fail", "ready", "timeout", "archived"}

\* the statuses of a timeline on the server
TimelineStatuses == {"processing"} \cup FinalStatuses

\* a test that takes every status as final
IsAnyStatus(status) == status \in TimelineStatuses

\* tl.status in ['fail', 'ready', 'timeout', 'archived']
IsFinalStatus(status) == status \in FinalStatuses

\* the exporter is not waiting: no timeline, nothing listed
WaitIdle ==
  /\ wait_pc = "skipped"
  /\ wait_for_timelines = FALSE
  /\ server_timelines = <<>>
  /\ timelines = <<>>
  /\ tl_idx = 1
  /\ listed_unfinished = FALSE

\* the server while the exporter waits: a timeline is added to the sketch
TimesketchAddTimeline ==
  /\ Len(server_timelines) < MaxTimelines
  /\ server_timelines' = Append(server_timelines, "processing")
  /\ UNCHANGED <<wait_pc, wait_for_timelines, timelines, tl_idx,
                 listed_unfinished>>
  /\ UNCHANGED <<poll_vars, proc_vars, sketch_vars>>

\* the server finishes a timeline; a finished timeline keeps its status
TimesketchFinishTimeline ==
  /\ \E k \in DOMAIN server_timelines, status \in FinalStatuses :
       /\ server_timelines[k] = "processing"
       /\ server_timelines' = [server_timelines EXCEPT ![k] = status]
  /\ UNCHANGED <<wait_pc, wait_for_timelines, timelines, tl_idx,
                 listed_unfinished>>
  /\ UNCHANGED <<poll_vars, proc_vars, sketch_vars>>

\* Process: if self.wait_for_timelines: self._WaitForTimelines(), up to the
\* loop: time.sleep(5); sketch = get_sketch(...);
\* timelines = sketch.list_timelines(). A listed timeline is a handle: its
\* status is read from the server each time tl.status is evaluated.
WaitForTimelinesList ==
  /\ wait_pc = "process"
  /\ IF wait_for_timelines
     THEN /\ wait_pc' = "check"
          /\ timelines' = [k \in 1..Len(server_timelines) |-> k]
          /\ listed_unfinished' =
               \E k \in DOMAIN server_timelines :
                 ~IsFinalStatus(server_timelines[k])
     ELSE /\ wait_pc' = "skipped"
          /\ UNCHANGED <<timelines, listed_unfinished>>
  /\ tl_idx' = 1
  /\ UNCHANGED <<wait_for_timelines, server_timelines>>
  /\ UNCHANGED <<poll_vars, proc_vars, sketch_vars>>

\* one step of `if all(tl.status in [...] for tl in timelines): break`:
\* all() stops at the first timeline whose status is not final
WaitForTimelinesCheck ==
  /\ wait_pc = "check"
  /\ IF tl_idx > Len(timelines)
     THEN wait_pc' = "returned" /\ UNCHANGED tl_idx
     ELSE IF IsFinalStatus(server_timelines[timelines[tl_idx]])
          THEN tl_idx' = tl_idx + 1 /\ UNCHANGED wait_pc
          ELSE wait_pc' = "sleep" /\ UNCHANGED tl_idx
  /\ UNCHANGED <<wait_for_timelines, server_timelines, timelines,
                 listed_unfinished>>
  /\ UNCHANGED <<poll_vars, proc_vars, sketch_vars>>

\* time.sleep(10), then the next iteration of `while True`
WaitForTimelinesSleep ==
  /\ wait_pc = "sleep"
  /\ wait_pc' = "check"
  /\ tl_idx' = 1
  /\ UNCHANGED <<wait_for_timelines, server_timelines, timelines,
                 listed_unfinished>>
  /\ UNCHANGED <<poll_vars, proc_vars, sketch_vars>>

----------------------------------------------------------------------------
\* TimesketchExporter.SetUp, _CreateSketch and Process: exporters that share
\* one state object, called one after the other in any order

Exporters == {"a", "b"}

\* the sketch id given to SetUp, the one a ticket attribute names, and the
\* id below those the server gives to new sketches
ArgSketchId == 5
TicketSketchId == 7
FirstNewSketchId == 100

\* a sketch object of the API client
Sketch(id) == [id |-> id]

\* AddToCache that stores nothing
AddToCacheDropped(cached, sketch) == cached

\* self.state.AddToCache('timesketch_sketch', sketch)
AddToCache(cached, sketch) == Some(sketch)

\* self.state.GetFromCache('timesketch_sketch'): None if nothing was added
GetFromCache(cached) == cached

\* what the last Process() call did, for an exporter that stopped before
\* choosing a sketch
ProcessStopped(e) ==
  Some([exporter |-> e, cached |-> GetFromCache(cache),
        known |-> exporters[e].sketch_id, used |-> NoneValue,
        created |-> FALSE])

\* the exporters and the state before any call; a ticket attribute of the
\* state may name a sketch
SketchInit ==
  /\ cache = NoneValue
  /\ exporters = [e \in Exporters |->
                    [timesketch_api |-> FALSE, sketch_id |-> NoneValue]]
  /\ ticket_sketch_id \in {NoneValue, Some(TicketSketchId)}
  /\ created = <<>>
  /\ last_process = NoneValue

\* SetUp(incident_id, sketch_id, ...) of exporter e. ModuleError(...,
\* critical=True) either raises or records the error and returns.
SetUp ==
  \E e \in Exporters, arg \in {NoneValue, Some(ArgSketchId)},
     api \in BOOLEAN, write \in BOOLEAN, raises \in BOOLEAN :
    /\ IF ~api
       THEN \* no API client: ModuleError raises, or None.session does
            /\ exporters' =
                 [exporters EXCEPT
                    ![e].timesketch_api = FALSE,
                    ![e].sketch_id = IF raises THEN @ ELSE arg]
            /\ UNCHANGED cache
       ELSE LET sketch_id == IF arg # NoneValue THEN arg
                             ELSE ticket_sketch_id
            IN /\ exporters' =
                    [exporters EXCEPT ![e].timesketch_api = TRUE,
                                      ![e].sketch_id = sketch_id]
               /\ IF sketch_id # NoneValue /\ (write \/ ~raises)
                  THEN cache' = AddToCache(cache, Sketch(Val(sketch_id)))
                  ELSE UNCHANGED cache
    /\ UNCHANGED <<ticket_sketch_id, created, last_process>>
    /\ UNCHANGED <<poll_vars, proc_vars, wait_vars>>

\* _CreateSketch of exporter e: create_sketch, self.sketch_id = sketch.id,
\* AddToCache
CreateSketch(e) ==
  LET sketch == Sketch(FirstNewSketchId + Len(created) + 1)
  IN /\ created' = Append(created, [id |-> sketch.id, by |-> e])
     /\ exporters' = [exporters EXCEPT ![e].sketch_id = Some(sketch.id)]
     /\ cache' = AddToCache(cache, sketch)
     /\ last_process' =
          Some([exporter |-> e, cached |-> GetFromCache(cache),
                known |-> exporters[e].sketch_id, used |-> Some(sketch),
                created |-> TRUE])

\* Process() of exporter e, as far as the sketch it works on
Process ==
  \E e \in Exporters, raises \in BOOLEAN :
    /\ LET api == exporters[e].timesketch_api
           cached == GetFromCache(cache)
           known == exporters[e].sketch_id
       IN IF ~api /\ (raises \/ cached = NoneValue)
          THEN \* ModuleError raises, or None.get_sketch / create_sketch does
               /\ last_process' = ProcessStopped(e)
               /\ UNCHANGED <<cache, exporters, created>>
          ELSE IF cached # NoneValue \/ known # NoneValue
          THEN /\ last_process' =
                    Some([exporter |-> e, cached |-> cached, known |-> known,
                          used |-> IF cached # NoneValue THEN cached
                                   ELSE Some(Sketch(Val(known))),
                          created |-> FALSE])
               /\ UNCHANGED <<cache, exporters, created>>
          ELSE /\ Len(created) < MaxSketches
               /\ CreateSketch(e)
    /\ UNCHANGED ticket_sketch_id
    /\ UNCHANGED <<poll_vars, proc_vars, wait_vars>>

\* no exporter has been set up and nothing is cached
SketchIdle ==
  /\ SketchInit
  /\ ticket_sketch_id = NoneValue

\* no exporter is running
TimesketchIdle == WaitIdle /\ SketchIdle

----------------------------------------------------------------------------

\* The module after __init__ and a successful setup(), before process() or
\* display_task_progress is called; the pipeline hands each module an empty
\* state.output.
ProcessorInit ==
  /\ poll_pc = "start"
  /\ task_results = <<>>
  /\ total_completed = 0
  /\ cur_completed = -1
  /\ prev_completed = -1
  /\ emitted = FALSE
  /\ pc = "start"
  /\ remote = <<>>
  /\ task_data = <<>>
  /\ fs \in SUBSET {LocalResult}
  /\ output = <<>>
  /\ errors = <<>>
  /\ reports = <<>>
  /\ gs_paths = <<>>
  /\ gs_idx = 1
  /\ fetched = <<>>
  /\ sends = 0
  /\ raised_at = "none"
  /\ self_client = "TurbiniaClient"
  /\ self_disk_name = Some(disk_name)
  /\ self_project = Some(project)
  /\ self_turbinia_zone = Some(turbinia_zone)
  /\ self_output_path = Some(output_path)
  /\ TURBINIA_PROJECT = project
  /\ state_input = <<>>
  /\ threatintel = <<>>
  /\ request = NoneValue
  /\ setup_project = Some(project)

Init == ProcessorInit /\ TimesketchIdle

\* the indicators other modules may have stored
IndicatorValues == {"evil.com", "bad.exe"}

\* what get_containers(ThreatIntelligence) can return
ThreatIntelLists ==
  UNION {[1..n -> {ThreatIntelligence("intel", i, NoneValue) :
                     i \in IndicatorValues}] : n \in 0..MaxIndicators}

\* The module after __init__, before setup(): every attribute is None. The
\* pipeline's state holds the input of the previous module, if any, and the
\* ThreatIntelligence containers stored so far.
RunInit ==
  /\ poll_pc = "start"
  /\ task_results = <<>>
  /\ total_completed = 0
  /\ cur_completed = -1
  /\ prev_completed = -1
  /\ emitted = FALSE
  /\ pc = "new"
  /\ remote = <<>>
  /\ task_data = <<>>
  /\ fs \in SUBSET {LocalResult}
  /\ output = <<>>
  /\ errors = <<>>
  /\ reports = <<>>
  /\ gs_paths = <<>>
  /\ gs_idx = 1
  /\ fetched = <<>>
  /\ sends = 0
  /\ raised_at = "none"
  /\ self_client = "None"
  /\ self_disk_name = NoneValue
  /\ self_project = NoneValue
  /\ self_turbinia_zone = NoneValue
  /\ self_output_path = NoneValue
  /\ TURBINIA_PROJECT \in {project, other_project}
  /\ state_input \in {<<>>, <<<<"disk", [name |-> input_disk_name]>>>>}
  /\ threatintel \in ThreatIntelLists
  /\ request = NoneValue
  /\ setup_project = NoneValue
  /\ TimesketchIdle

Next ==
  \/ RemoteAddTask
  \/ RemoteSavePath
  \/ RemoteFinishTask
  \/ ProcessSend
  \/ ProcessWait
  \/ ProcessCollect
  \/ ProcessFetch

Spec == Init /\ [][Next]_vars

RunNext ==
  \/ Setup
  \/ RemoteRunsRequest
  \/ ProcessSend
  \/ ProcessWait
  \/ ProcessCollect
  \/ ProcessFetch

RunSpec == RunInit /\ [][RunNext]_vars

PollSpec == Init /\ [][PollNext]_vars

\* display_task_progress polling a service whose tasks never disappear and
\* never leave a terminal status. The loop is sequential code that keeps
\* running: each step it can take, it eventually takes.
PollFairSpec ==
  /\ Init
  /\ [][PollMonotoneNext]_vars
  /\ WF_vars(PollQueryMonotone)
  /\ WF_vars(PollEvaluate)

\* Process() has reached `if self.wait_for_timelines:`; the sketch has any
\* timelines, in any status
WaitInit ==
  /\ ProcessorInit
  /\ fs = {}
  /\ wait_pc = "process"
  /\ SketchIdle
  /\ wait_for_timelines \in BOOLEAN
  /\ server_timelines \in UNION {[1..n -> TimelineStatuses] : n \in 0..2}
  /\ timelines = <<>>
  /\ tl_idx = 1
  /\ listed_unfinished = FALSE

WaitNext ==
  \/ TimesketchAddTimeline
  \/ TimesketchFinishTimeline
  \/ WaitForTimelinesList
  \/ WaitForTimelinesCheck
  \/ WaitForTimelinesSleep

\* The exporter is sequential code that keeps running: each step it can
\* take, it eventually takes. Nothing is assumed of the server.
WaitSpec ==
  /\ WaitInit
  /\ [][WaitNext]_vars
  /\ WF_vars(WaitForTimelinesList)
  /\ WF_vars(WaitForTimelinesCheck)
  /\ WF_vars(WaitForTimelinesSleep)

\* Exporters sharing one state, before any SetUp
SketchSpecInit ==
  /\ ProcessorInit
  /\ fs = {}
  /\ WaitIdle
  /\ SketchInit

SketchNext == SetUp \/ Process

SketchSpec == SketchSpecInit /\ [][SketchNext]_vars

----------------------------------------------------------------------------
\* Claims about display_task_progress (PollSpec, PollFairSpec)

\* an iteration has been evaluated and its outcome is visible
PollDecided == poll_pc \in {"sleep", "returned"}

AllTerminal(results) ==
  /\ results # <<>>
  /\ \A k \in DOMAIN results : IsCompleted(results[k])

\* C1: the loop returns on an iteration if and only if that iteration's
\* snapshot is non-empty and every task record in it is terminal; on any
\* other snapshot it sleeps. Stated of every snapshot, two records with one
\* id included.
C1_ReturnsIffAllTerminal ==
  PollDecided => ((poll_pc = "returned") <=> AllTerminal(task_results))

\* C2: a progress message is printed on an iteration only if it is the first
\* iteration or the completed count is strictly greater than on the previous
\* iteration.
C2_PrintsOnlyOnIncrease ==
  (PollDecided /\ emitted) =>
    (prev_completed = -1 \/ cur_completed > prev_completed)

\* C3: against a service whose tasks never disappear and never leave a
\* terminal status (PollFairSpec), if the client keeps answering and from
\* some poll onward every snapshot is non-empty with all tasks terminal,
\* the loop eventually returns.
C3_EventuallyReturns ==
  (/\ [](poll_pc # "raised")
   /\ <>[]AllTerminal(task_results))
    => <>(poll_pc = "returned")

----------------------------------------------------------------------------
\* Claims about process (Spec)

\* the saved paths of a snapshot in discovery order: task order, then path
\* order within the task
RECURSIVE Discovery(_)
Discovery(tasks) ==
  IF tasks = <<>> THEN <<>>
  ELSE Head(tasks).saved_paths \o Discovery(Tail(tasks))

\* the output entry of a collected path
Entry(p) ==
  <<timeline_label, IF StartsWith(p, GsScheme) THEN StagedPath(p) ELSE p>>

Entries(paths) == [k \in 1..Len(paths) |-> Entry(paths[k])]

\* the remote paths whose copy_from returned a local path, in fetch order
FetchedOk ==
  LET ok == SelectSeq(fetched, LAMBDA f : f.result = "path")
  IN [k \in 1..Len(ok) |-> ok[k].path]

FetchedPaths == [k \in 1..Len(fetched) |-> fetched[k].path]

\* process() ran to its end: no client call raised
RanToEnd == pc = "done" /\ raised_at = "none"

RequestCalls == {"send_request", "wait_for_request", "get_task_data"}

NoArtifactsMessages ==
  {"No .plaso files found in Turbinia output.",
   "No .plaso files could be found."}

HasNoArtifactsError ==
  \E k \in DOMAIN errors :
    errors[k].msg \in NoArtifactsMessages /\ errors[k].critical

\* C4, as claimed: the output lists the collected artifacts in discovery
\* order, whether Local or Remote.
C4_DiscoveryOrder ==
  (RanToEnd /\ \A k \in DOMAIN fetched : fetched[k].result = "path") =>
    output = Entries(SelectSeq(Discovery(task_data),
                 LAMBDA p : (IsLocalPlaso(p) /\ p \in fs) \/ IsGsPlaso(p)))

\* C4, amended: the output is the existing Local artifacts in discovery
\* order followed by the fetched Remote artifacts in discovery order, one
\* entry per occurrence; the remote paths are fetched in discovery order.
\* One task with [local result, worker log, remote result], the local file
\* existing and the fetch succeeding, yields exactly those two entries.
C4_LocalsThenRemotes ==
  /\ LET discovered == Discovery(task_data)
         remotes == SelectSeq(discovered, IsGsPlaso)
     IN /\ output =
             Entries(SelectSeq(discovered,
                               LAMBDA p : IsLocalPlaso(p) /\ p \in fs))
             \o Entries(FetchedOk)
        /\ FetchedPaths = SubSeq(remotes, 1, Len(fetched))
        /\ RanToEnd => Len(fetched) = Len(remotes)
  /\ ( /\ RanToEnd
       /\ Len(task_data) = 1
       /\ task_data[1].saved_paths = <<LocalResult, WorkerLogPath, RemoteResult>>
       /\ LocalResult \in fs
       /\ fetched[1].result = "path" )
     => output = <<<<timeline_label, LocalResult>>,
                   <<timeline_label, StagedPath(RemoteResult)>>>>

\* a remote result discovered before a local one that occurs twice
C4_Witness ==
  /\ RanToEnd
  /\ Len(task_data) = 1
  /\ task_data[1].saved_paths = <<RemoteResult, LocalResult, LocalResult>>
  /\ output = <<<<timeline_label, LocalResult>>,
                <<timeline_label, LocalResult>>,
                <<timeline_label, StagedPath(RemoteResult)>>>>

\* C5: when copy_from raises, one critical error is recorded and process()
\* stops there: the failed fetch is the last fetch, and no step follows.
C5_FetchFailureStops ==
  raised_at = "copy_from" =>
    /\ pc = "done"
    /\ errors = <<[msg |-> "TurbiniaException", critical |-> TRUE]>>
    /\ Len(fetched) = gs_idx
    /\ fetched[Len(fetched)].result = "raised"
    /\ \A k \in 1..(Len(fetched) - 1) : fetched[k].result # "raised"
    /\ ~ENABLED Next

\* a fetch raised while a later remote path was still to be fetched
C5_Witness ==
  /\ raised_at = "copy_from"
  /\ gs_idx < Len(gs_paths)
  /\ output # <<>>

\* C6: when send_request, wait_for_request or get_task_data raises, exactly
\* one critical error is recorded, no Report is stored, nothing is fetched,
\* the output keeps the value it had before process(), and no step follows.
C6_RequestFailureAborts ==
  raised_at \in RequestCalls =>
    /\ pc = "done"
    /\ errors = <<[msg |-> "TurbiniaException", critical |-> TRUE]>>
    /\ reports = <<>>
    /\ fetched = <<>>
    /\ output = <<>>
    /\ task_data = <<>>
    /\ ~ENABLED Next

\* get_task_data raised although the tasks had results to collect
C6_Witness ==
  /\ raised_at = "get_task_data"
  /\ \E k \in DOMAIN remote : \E j \in DOMAIN remote[k].saved_paths :
       remote[k].saved_paths[j] \in {LocalResult, RemoteResult}

\* C7: a run that processed all tasks records a critical NoArtifacts error
\* if and only if its collected list is empty, and no other run records
\* that error.
C7_NoArtifactsIffEmpty ==
  /\ RanToEnd => (HasNoArtifactsError <=> output = <<>>)
  /\ HasNoArtifactsError => (RanToEnd /\ output = <<>> /\ Len(errors) = 1)

\* nothing collected although a local path and a remote path were retained
C7_Witness ==
  /\ RanToEnd
  /\ HasNoArtifactsError
  /\ fetched # <<>>
  /\ \E k \in DOMAIN task_data : \E j \in DOMAIN task_data[k].saved_paths :
       task_data[k].saved_paths[j] = LocalResult

LogNamed(p) ==
  \/ EndsWith(p, WorkerLog)
  \/ /\ EndsWith(p, LogExt)
     /\ \E n \in 1..4 : EndsWith(p, TaskLogName(TaskIdOf(n)))

\* C8: no path ending in worker-log.txt or in <task_id>.log, for any task
\* id, is in the output or is fetched.
C8_NoLogPaths ==
  /\ \A k \in DOMAIN output : ~LogNamed(output[k][2])
  /\ \A k \in DOMAIN fetched : ~LogNamed(fetched[k].path)

\* a task reported its own log, the worker log and a result
C8_Witness ==
  /\ RanToEnd
  /\ Len(task_data) = 1
  /\ task_data[1].saved_paths = <<TaskLogPath, WorkerLogPath, RemoteResult>>
  /\ output = <<<<timeline_label, StagedPath(RemoteResult)>>>>

\* one Successful task whose only retained path is a missing Local path
MissingLocalScenario ==
  /\ RanToEnd
  /\ task_data = <<Task(TaskIdOf(1), "Successful", <<LocalResult>>)>>
  /\ LocalResult \notin fs

C10_FailedTasksTolerated ==
  RanToEnd =>
    /\ (errors = <<>>) <=>
         \/ \E k \in DOMAIN Discovery(task_data) :
              /\ IsLocalPlaso(Discovery(task_data)[k])
              /\ Discovery(task_data)[k] \in fs
         \/ FetchedOk # <<>>
    /\ (errors = <<>>) <=> (output # <<>>)
    /\ output # <<>> =>
         /\ Len(reports) = 1
         /\ \A k \in DOMAIN task_data :
              task_data[k].status = "Failed" =>
                \E l \in DOMAIN reports[1].text :
                  /\ reports[1].text[l].kind = "task"
                  /\ reports[1].text[l].id = task_data[k].id
                  /\ reports[1].text[l].status = "Failed"

\* a Failed task, whose result is the only artifact, and no error
C10_Witness ==
  /\ RanToEnd
  /\ errors = <<>>
  /\ output # <<>>
  /\ \A k \in DOMAIN task_data :
       task_data[k].saved_paths # <<>> => task_data[k].status = "Failed"

\* get_task_data returned and process() went on to the report
SnapshotTaken ==
  /\ pc \in {"fetch", "done", "crashed"}
  /\ raised_at \in {"none", "copy_from", "format"}

\* the retained Remote paths of the snapshot, one per occurrence, in
\* discovery order
RetainedRemote == SelectSeq(Discovery(task_data), IsGsPlaso)

\* C11: nothing is retried inside one run: send_request is called at most
\* once, and the k-th copy_from call is for the k-th retained Remote path
\* occurrence, so each occurrence is fetched at most once and at most one
\* fetch raises, whatever errors occur.
C11_NoRetries ==
  /\ sends <= 1
  /\ Len(errors) <= 1
  /\ fetched # <<>> =>
       LET retained == RetainedRemote
       IN /\ Len(fetched) <= Len(retained)
          /\ \A k \in DOMAIN fetched : fetched[k].path = retained[k]
          /\ Cardinality({k \in DOMAIN fetched :
                            fetched[k].result = "raised"}) <= 1

\* the second occurrence of a remote path was fetched once, and raised
C11_Witness ==
  /\ raised_at = "copy_from"
  /\ sends = 1
  /\ Len(fetched) = 2
  /\ fetched[1].path = fetched[2].path
  /\ Len(RetainedRemote) = 3

\* the report's first line
HeaderLine(n) ==
  [kind |-> "header", name |-> "", id |-> <<>>, status |-> "",
   path |-> <<>>, n |-> n]

\* the report's line for a task: id, name and status
TaskLine(task) ==
  [kind |-> "task", name |-> task.name, id |-> task.id,
   status |-> task.status, path |-> <<>>, n |-> 0]

\* the report's lines for a list of paths
PathLines(paths) ==
  [k \in 1..Len(paths) |->
     [kind |-> "path", name |-> "", id |-> <<>>, status |-> "",
      path |-> paths[k], n |-> 0]]

\* the collector keeps the path as a Local or a Remote candidate
CollectorKeeps(path) == IsLocalPlaso(path) \/ IsGsPlaso(path)

\* a report body with, under each task, the paths the collector keeps
RECURSIVE RetainedBody(_)
RetainedBody(tasks) ==
  IF tasks = <<>> THEN <<>>
  ELSE <<TaskLine(Head(tasks))>>
       \o PathLines(SelectSeq(Head(tasks).saved_paths, CollectorKeeps))
       \o RetainedBody(Tail(tasks))

\* a report body with, under each task, the paths that are neither local
\* nor a worker log nor that task's own log
RECURSIVE NonLocalNonLogBody(_)
NonLocalNonLogBody(tasks) ==
  IF tasks = <<>> THEN <<>>
  ELSE <<TaskLine(Head(tasks))>>
       \o PathLines(SelectSeq(Head(tasks).saved_paths,
                              LAMBDA p : /\ ~StartsWith(p, Slash)
                                         /\ ~EndsWith(p, WorkerLog)
                                         /\ ~EndsWith(p, Head(tasks).id \o LogExt)))
       \o NonLocalNonLogBody(Tail(tasks))

\* C15, as claimed: the report has one line per task of the snapshot, in
\* order, and beneath each task exactly the saved paths the collector
\* retains as Local or Remote candidates.
C15_ReportShowsRetained ==
  (SnapshotTaken /\ reports # <<>>) =>
    reports[1].text = <<HeaderLine(Len(task_data))>> \o RetainedBody(task_data)

\* C15, amended: the report has one line per task of the snapshot, in order,
\* and beneath each task exactly its saved paths that do not start with '/',
\* do not end with 'worker-log.txt' and do not end with '<task id>.log',
\* whatever their extension; the collector's retained Local paths are never
\* shown.
C15_ReportShowsNonLocalNonLog ==
  (SnapshotTaken /\ reports # <<>>) =>
    reports[1].text =
      <<HeaderLine(Len(task_data))>> \o NonLocalNonLogBody(task_data)

\* the snapshot holds a Local result the collector keeps and the report
\* hides, and another task's log the report shows and the collector drops
C15_Witness ==
  /\ SnapshotTaken
  /\ reports # <<>>
  /\ \E k \in DOMAIN task_data :
       \E i \in DOMAIN task_data[k].saved_paths :
         task_data[k].saved_paths[i] = LocalResult
  /\ \E k \in DOMAIN task_data :
       /\ task_data[k].id # <<"1">>
       /\ \E i \in DOMAIN task_data[k].saved_paths :
            task_data[k].saved_paths[i] = TaskLogPath

\* C16, as claimed: the Report is stored only after artifact collection has
\* finished successfully, so none is stored while remote paths are still to
\* be fetched or when the run ends in a NoArtifacts or a retrieval error.
C16_ReportOnlyAfterCollection ==
  (pc = "fetch" \/ HasNoArtifactsError \/ raised_at = "copy_from")
    => reports = <<>>

\* C16, amended: the steps occur in the order submit, poll, report, collect:
\* the request is sent once before any waiting, the Report is stored at most
\* once, exactly when the task snapshot has been obtained and before any
\* artifact is collected, so a run that ends in a NoArtifacts or a retrieval
\* error has stored its Report.
C16_ReportBeforeCollection ==
  /\ Len(reports) <= 1
  /\ (reports # <<>>) <=> SnapshotTaken
  /\ pc \in {"waiting", "waited", "fetch"} => sends = 1
  /\ task_data # <<>> => sends = 1
  /\ (fetched # <<>> \/ output # <<>> \/ HasNoArtifactsError
        \/ raised_at = "copy_from") => Len(reports) = 1

\* a run that ended in a retrieval error with its Report stored
C16_Witness ==
  /\ pc = "done"
  /\ raised_at = "copy_from"
  /\ Len(reports) = 1
  /\ reports[1].module_name = "TurbiniaProcessor"

\* C17: every task of the snapshot that process() reports on and collects
\* from has a terminal status.
C17_SnapshotAllTerminal ==
  SnapshotTaken => \A k \in DOMAIN task_data : IsCompleted(task_data[k])

\* C18: when process() ends with a retrieval error the output is empty: it
\* holds none of the artifacts gathered before the failing fetch.
C18_NoPartialOutput == raised_at = "copy_from" => output = <<>>

\* the output entries that come from a fetch
RemoteEntries ==
  SelectSeq(output,
            LAMBDA e : \E k \in DOMAIN RetainedRemote :
                         e[2] = StagedPath(RetainedRemote[k]))

\* C20: when the run ends without a retrieval error, every retained Remote
\* path occurrence has contributed exactly one output entry.
C20_FetchedOrFailed ==
  (pc = "done" /\ SnapshotTaken /\ raised_at # "copy_from")
    => Len(RemoteEntries) = Len(RetainedRemote)

\* setup() recorded the project mismatch as a critical error
MismatchRecorded ==
  \E k \in DOMAIN errors :
    errors[k].msg = ProjectMismatchMessage /\ errors[k].critical

\* the errors setup() can record
SetupMessages ==
  {ProjectMismatchMessage, "TurbiniaException",
   "project or turbinia_zone are not all specified, bailing out"}

\* C12: after setup() was given a project other than the configured one, a
\* critical error is recorded, the client and the staging directory were not
\* created, and process() sends no request; the mismatch error is recorded
\* only for such a project.
C12_MismatchStopsSetup ==
  /\ (pc # "new" /\ setup_project # NoneValue
        /\ Val(setup_project) # TURBINIA_PROJECT)
       => /\ Len(errors) = 1
          /\ errors[1].critical
          /\ errors[1].msg \in SetupMessages
          /\ self_client = "None"
          /\ self_output_path = NoneValue
          /\ sends = 0
          /\ pc \in {"start", "crashed"}
  /\ MismatchRecorded
       => /\ self_project = setup_project
          /\ Val(setup_project) # TURBINIA_PROJECT

\* the mismatch was recorded, process() was called and stopped before any
\* request
C12_Witness ==
  /\ MismatchRecorded
  /\ pc = "crashed"
  /\ raised_at = "os.path.join"
  /\ sends = 0
  /\ request = NoneValue

\* request.recipe['filter_patterns'], empty when the key was not set
FilterPatterns(req) ==
  IF "filter_patterns" \in DOMAIN req.recipe
  THEN req.recipe.filter_patterns
  ELSE <<>>

\* C13: the request process() builds carries one filter pattern per
\* ThreatIntelligence container of the state, the i-th being the i-th
\* container's indicator; the key is set exactly when there is a container.
C13_FilterPatternsFollowIndicators ==
  request # NoneValue =>
    LET patterns == FilterPatterns(Val(request))
    IN /\ Len(patterns) = Len(threatintel)
       /\ \A i \in DOMAIN threatintel : patterns[i] = threatintel[i].indicator
       /\ ("filter_patterns" \in DOMAIN Val(request).recipe)
            <=> (threatintel # <<>>)

\* a request with two different indicators was sent
C13_Witness ==
  /\ sends = 1
  /\ request # NoneValue
  /\ Len(threatintel) = 2
  /\ threatintel[1].indicator = "evil.com"
  /\ threatintel[2].indicator = "bad.exe"
  /\ Val(request).recipe.filter_patterns = <<"evil.com", "bad.exe">>

\* the label made of the request's evidence: project, '-', disk name
RequestLabel ==
  LET e == Val(request).evidence[1]
  IN Val(e.project) \o <<"-">> \o Val(e.disk_name)

\* C14: every output entry carries the label made of the project and the
\* disk name of the request's evidence, and of nothing else.
C14_LabelOfDescriptor ==
  \A k \in DOMAIN output :
    /\ request # NoneValue
    /\ output[k][1] = RequestLabel

\* two artifacts of the disk a previous collector left, in the other project
C14_Witness ==
  /\ RanToEnd
  /\ Len(output) = 2
  /\ output[1][1] = other_project \o <<"-">> \o input_disk_name
  /\ output[2][1] = other_project \o <<"-">> \o input_disk_name

\* C19, as claimed: every path with the object-store scheme that is not
\* named like a log is fetched, whatever its extension.
C19_EveryGsPathFetched ==
  RanToEnd =>
    \A k \in DOMAIN Discovery(task_data) :
      LET p == Discovery(task_data)[k]
      IN (StartsWith(p, GsScheme) /\ ~LogNamed(p))
           => \E j \in DOMAIN fetched : fetched[j].path = p

\* C19, amended: only paths ending in .plaso are kept: a path with the
\* object-store scheme is classified Remote and fetched if and only if it
\* ends in .plaso, and every other path, log-named or not, is dropped.
C19_OnlyPlasoFetched ==
  /\ \A j \in DOMAIN fetched :
       /\ StartsWith(fetched[j].path, GsScheme)
       /\ EndsWith(fetched[j].path, PlasoExt)
  /\ \A k \in DOMAIN output : EndsWith(output[k][2], PlasoExt)
  /\ RanToEnd =>
       \A k \in DOMAIN Discovery(task_data) :
         LET p == Discovery(task_data)[k]
         IN StartsWith(p, GsScheme) =>
              ((\E j \in DOMAIN fetched : fetched[j].path = p)
                 <=> EndsWith(p, PlasoExt))

\* a task saved gs://b.txt and gs://b.plaso; only the second was fetched
C19_Witness ==
  /\ RanToEnd
  /\ Len(task_data) = 1
  /\ task_data[1].saved_paths = <<RemoteText, RemoteResult>>
  /\ FetchedPaths = <<RemoteResult>>

\* C21: whenever a request has been sent, the disk name, the project and
\* the zone of its evidence are all set and non-empty; and after a setup()
\* that lacked the project or the zone, one critical error is recorded and
\* the disk name, project, zone, client and staging directory are unset.
C21_EvidenceFieldsNonEmpty ==
  /\ sends >= 1 =>
       /\ request # NoneValue
       /\ LET e == Val(request).evidence[1]
          IN ~Falsy(e.disk_name) /\ ~Falsy(e.project) /\ ~Falsy(e.zone)
  /\ (pc # "new" /\ self_project = NoneValue) =>
       /\ Len(errors) = 1
       /\ errors[1].critical
       /\ self_disk_name = NoneValue
       /\ self_turbinia_zone = NoneValue
       /\ self_client = "None"
       /\ self_output_path = NoneValue

\* every timeline of the sketch has a final status
AllTimelinesFinal ==
  \A k \in DOMAIN server_timelines : server_timelines[k] # "processing"

\* every listed timeline has a final status
ListedTimelinesFinal ==
  \A k \in DOMAIN timelines : server_timelines[timelines[k]] # "processing"

\* C22: _WaitForTimelines never returns while a listed timeline has a
\* status that is not final, and when it is called and every timeline of the
\* sketch ends up with a final status, it eventually returns, also when a
\* timeline was still processing as the list was read.
C22_WaitReturnsOnceFinal ==
  /\ [](wait_pc = "returned" => ListedTimelinesFinal)
  /\ (wait_for_timelines /\ <>[]AllTimelinesFinal) => <>(wait_pc = "returned")

\* the wait returned although a listed timeline was processing when listed
C22_Witness ==
  /\ wait_pc = "returned"
  /\ listed_unfinished
  /\ Len(timelines) >= 2
  /\ ListedTimelinesFinal

====
